---- MODULE Spec2Model ----
(***************************************************************************)
(* Model of src/app.py: the /transfer request handler.  Two spreadsheets   *)
(* are loaded as DataFrames, one column of each is renamed to 'comum' and  *)
(* normalised (astype(str).str.strip().str.upper()), both frames are       *)
(* filtered to the key values of the second one, and the filtered frames   *)
(* are outer-merged on 'comum' and sent back as a spreadsheet.             *)
(*                                                                         *)
(* A text is a sequence of one-character strings, so that strip and upper  *)
(* are computed.  A cell is a record [t, s, n]: t = "str" with text s,     *)
(* t = "num" with value n, or t = "null" (NaN).  A DataFrame is a record   *)
(* [cols, rows]: cols the sequence of column labels (labels may repeat     *)
(* after a rename), rows a sequence of cell sequences aligned with cols.   *)
(* pandas semantics are those of the 2.x line the program was written for. *)
(***************************************************************************)
EXTENDS Integers, Sequences, FiniteSets

\* Largest number of data rows of an uploaded sheet.
MaxRows == 2

-----------------------------------------------------------------------------
(* Cells and texts *)

Null == [t |-> "null", s |-> <<>>, n |-> 0]
Str(s) == [t |-> "str", s |-> s, n |-> 0]
Num(n) == [t |-> "num", s |-> <<>>, n |-> n]

NoTable == [cols |-> <<>>, rows |-> <<>>]

\* The characters in code-point order (space, '.', digits, upper, lower).
Alphabet ==
  << " ", ".", "0", "1", "2", "3", "4", "5", "6", "7", "8", "9",
     "A", "B", "C", "D", "E", "F", "G", "H", "I", "J", "K", "L", "M",
     "N", "O", "P", "Q", "R", "S", "T", "U", "V", "W", "X", "Y", "Z",
     "a", "b", "c", "d", "e", "f", "g", "h", "i", "j", "k", "l", "m",
     "n", "o", "p", "q", "r", "s", "t", "u", "v", "w", "x", "y", "z" >>

Ord(c) == CHOOSE i \in DOMAIN Alphabet : Alphabet[i] = c

IsSpace(c) == c = " "

IsLower(c) == Ord(c) > 38

UpperChar(c) == IF IsLower(c) THEN Alphabet[Ord(c) - 26] ELSE c

\* str.upper()
Upper(s) == [i \in DOMAIN s |-> UpperChar(s[i])]

RECURSIVE LStrip(_)
LStrip(s) ==
  IF s # <<>> /\ IsSpace(Head(s)) THEN LStrip(Tail(s)) ELSE s

RECURSIVE RStrip(_)
RStrip(s) ==
  IF s # <<>> /\ IsSpace(s[Len(s)]) THEN RStrip(SubSeq(s, 1, Len(s) - 1)) ELSE s

\* Mutation of Strip: only the leading whitespace is removed.
StripLeftOnly(s) == LStrip(s)

\* str.strip()
Strip(s) == RStrip(LStrip(s))

RECURSIVE Digits(_)
Digits(n) ==
  IF n < 10 THEN <<Alphabet[n + 3]>>
  ELSE Digits(n \div 10) \o <<Alphabet[(n % 10) + 3]>>

\* The dtype of a column read from a sheet: float64 when it holds numbers
\* and empty cells only (or nothing but empty cells).
IsFloatColumn(cells) ==
  /\ \E i \in DOMAIN cells : cells[i].t = "null"
  /\ \A i \in DOMAIN cells : cells[i].t \in {"null", "num"}

\* str(value) of one cell, as astype(str) computes it.
PyStr(cell, float) ==
  CASE cell.t = "str" -> cell.s
    [] cell.t = "null" -> <<"n", "a", "n">>
    [] OTHER -> Digits(cell.n) \o (IF float THEN <<".", "0">> ELSE <<>>)

\* Mutation of NormalizeCell: an empty cell stays empty.
NormalizeCellKeepNull(cell, float) ==
  IF cell.t = "null" THEN Null ELSE Str(Upper(Strip(PyStr(cell, float))))

\* astype(str).str.strip().str.upper() on one cell.
NormalizeCell(cell, float) == Str(Upper(Strip(PyStr(cell, float))))

RECURSIVE LexLess(_, _)
LexLess(a, b) ==
  IF a = <<>> THEN b # <<>>
  ELSE IF b = <<>> THEN FALSE
  ELSE IF Head(a) = Head(b) THEN LexLess(Tail(a), Tail(b))
  ELSE Ord(Head(a)) < Ord(Head(b))

-----------------------------------------------------------------------------
(* DataFrame operations *)

ColIdx(df, name) == {j \in DOMAIN df.cols : df.cols[j] = name}

HasCol(df, name) == ColIdx(df, name) # {}

Column(df, j) == [i \in DOMAIN df.rows |-> df.rows[i][j]]

\* df.rename(columns={key: 'comum'}): a label that is absent is ignored.
Rename(df, key) ==
  [df EXCEPT !.cols =
     [j \in DOMAIN df.cols |-> IF df.cols[j] = key THEN "comum" ELSE df.cols[j]]]

\* Mutation of GetItemRaises: a missing label is not reported.
GetItemNeverRaises(df) == FALSE

\* df['comum'] raises KeyError when no column has that label.
GetItemRaises(df) == ~HasCol(df, "comum")

\* df['comum'] is a DataFrame, which has no .str, when the label repeats.
StrAccessorRaises(df) == Cardinality(ColIdx(df, "comum")) > 1

\* df['comum'] = df['comum'].astype(str).str.strip().str.upper()
NormalizeComum(df) ==
  [df EXCEPT !.rows =
     [i \in DOMAIN df.rows |->
        [j \in DOMAIN df.cols |->
           IF df.cols[j] = "comum"
           THEN NormalizeCell(df.rows[i][j], IsFloatColumn(Column(df, j)))
           ELSE df.rows[i][j]]]]

\* The 'comum' cell of a row of df.
KeyOf(df, row) == row[CHOOSE j \in ColIdx(df, "comum") : TRUE]

KeyColumn(df) == [i \in DOMAIN df.rows |-> KeyOf(df, df.rows[i])]

\* Series.dropna()
DropNa(cells) == SelectSeq(cells, LAMBDA c : c.t # "null")

RECURSIVE Unique(_)
\* Series.unique(): the distinct values in order of first appearance.
Unique(cells) ==
  IF cells = <<>> THEN <<>>
  ELSE LET init == Unique(SubSeq(cells, 1, Len(cells) - 1))
           last == cells[Len(cells)]
       IN IF \E i \in DOMAIN init : init[i] = last THEN init
          ELSE Append(init, last)

\* Mutation of Isin: every value is taken to be a member.
IsinAlways(cell, values) == TRUE

\* Series.isin(values) for one cell; NaN is never a member of texts.
Isin(cell, values) ==
  cell.t # "null" /\ \E i \in DOMAIN values : values[i] = cell

\* Mutation of BoolIndex: the retained rows come out in reverse order.
BoolIndexReversed(df, values) ==
  LET kept == SelectSeq(df.rows, LAMBDA r : Isin(KeyOf(df, r), values))
  IN [df EXCEPT !.rows = [i \in DOMAIN kept |-> kept[Len(kept) + 1 - i]]]

\* df[df['comum'].isin(values)]
BoolIndex(df, values) ==
  [df EXCEPT !.rows = SelectSeq(df.rows, LAMBDA r : Isin(KeyOf(df, r), values))]

\* Mutation of Empty: the frame is never seen as empty.
EmptyNever(df) == FALSE

\* DataFrame.empty
Empty(df) == df.rows = <<>> \/ df.cols = <<>>

-----------------------------------------------------------------------------
(* pd.merge(left, right, on='comum', how='outer') *)

Labels(df) == {df.cols[j] : j \in DOMAIN df.cols}

\* The labels both frames carry besides the key: they get a suffix.
Overlap(left, right) == (Labels(left) \cap Labels(right)) \ {"comum"}

\* The labels of one side after the suffix ('_x' left, '_y' right).
Suffixed(df, overlap, suffix) ==
  [j \in DOMAIN df.cols |->
     IF df.cols[j] \in overlap THEN df.cols[j] \o suffix ELSE df.cols[j]]

HasDuplicates(labels) ==
  \E i, j \in DOMAIN labels : i < j /\ labels[i] = labels[j]

\* MergeError: the suffixes make two labels of one side equal.
MergeRaises(left, right) ==
  \/ HasDuplicates(Suffixed(left, Overlap(left, right), "_x"))
  \/ HasDuplicates(Suffixed(right, Overlap(left, right), "_y"))

SeqWithout(s, k) == [j \in 1..(Len(s) - 1) |-> IF j < k THEN s[j] ELSE s[j + 1]]

\* The result's labels: the left frame's, then the right frame's without its key.
MergeCols(left, right) ==
  LET rk == CHOOSE j \in ColIdx(right, "comum") : TRUE
  IN Suffixed(left, Overlap(left, right), "_x")
       \o SeqWithout(Suffixed(right, Overlap(left, right), "_y"), rk)

KeySet(df) == {KeyOf(df, df.rows[i]) : i \in DOMAIN df.rows}

RECURSIVE SortKeys(_)
\* The distinct keys in lexicographic order (an outer merge sorts its keys).
SortKeys(S) ==
  IF S = {} THEN <<>>
  ELSE LET m == CHOOSE x \in S : \A y \in S \ {x} : LexLess(x.s, y.s)
       IN <<m>> \o SortKeys(S \ {m})

\* The result rows of one key: the cross product of the rows that carry it,
\* or the rows of the only side that has it with NaN for the other side.
RowsFor(left, right, k, inner) ==
  LET lk == CHOOSE j \in ColIdx(left, "comum") : TRUE
      rk == CHOOSE j \in ColIdx(right, "comum") : TRUE
      ls == SelectSeq(left.rows, LAMBDA r : r[lk] = k)
      rs == SelectSeq(right.rows, LAMBDA r : r[rk] = k)
      nl == [j \in DOMAIN left.cols |-> IF j = lk THEN k ELSE Null]
      nr == [j \in 1..(Len(right.cols) - 1) |-> Null]
  IN IF ls = <<>>
     THEN IF inner THEN <<>>
          ELSE [i \in DOMAIN rs |-> nl \o SeqWithout(rs[i], rk)]
     ELSE IF rs = <<>>
     THEN IF inner THEN <<>> ELSE [i \in DOMAIN ls |-> ls[i] \o nr]
     ELSE [p \in 1..(Len(ls) * Len(rs)) |->
             ls[((p - 1) \div Len(rs)) + 1]
               \o SeqWithout(rs[((p - 1) % Len(rs)) + 1], rk)]

RECURSIVE Flatten(_, _, _, _)
Flatten(left, right, keys, inner) ==
  IF keys = <<>> THEN <<>>
  ELSE RowsFor(left, right, Head(keys), inner)
         \o Flatten(left, right, Tail(keys), inner)

\* Mutation of MergeRows: how='inner', the unmatched keys are left out.
MergeRowsInner(left, right) ==
  Flatten(left, right, SortKeys(KeySet(left) \cup KeySet(right)), TRUE)

MergeRows(left, right) ==
  Flatten(left, right, SortKeys(KeySet(left) \cup KeySet(right)), FALSE)

\* Mutation of Merge: no suffix is added, a label both frames carry repeats.
MergeNoSuffix(left, right) ==
  LET rk == CHOOSE j \in ColIdx(right, "comum") : TRUE
  IN [cols |-> left.cols \o SeqWithout(right.cols, rk),
      rows |-> MergeRows(left, right)]

Merge(left, right) ==
  [cols |-> MergeCols(left, right), rows |-> MergeRows(left, right)]

-----------------------------------------------------------------------------
(* The uploaded sheets *)

\* The key cells a sheet of the first file may hold.
KeyCells1 == {Str(<<" ", "a">>), Null, Num(7)}

\* The key cells a sheet of the second file may hold.
KeyCells2 == {Str(<<"A", " ">>), Null, Str(<<"7", ".", "0">>)}

KeySeqs(cells) == UNION {[1..n -> cells] : n \in 0..MaxRows}

\* Header row and requested key column of the first upload.
Shapes1 ==
  { [cols |-> <<"City", "Pop">>, key |-> "City"],
    [cols |-> <<"City", "Pop">>, key |-> "Zip"],
    [cols |-> <<"comum", "Pop">>, key |-> "Zip"],
    [cols |-> <<"comum", "Pop">>, key |-> "comum"],
    [cols |-> <<"City", "comum">>, key |-> "City"],
    [cols |-> <<"City", "Pop", "Pop_x">>, key |-> "City"] }

\* Header row and requested key column of the second upload.
Shapes2 ==
  { [cols |-> <<"Town", "Region">>, key |-> "Town"],
    [cols |-> <<"Town", "Pop">>, key |-> "Town"],
    [cols |-> <<"Town", "Region">>, key |-> "Zip"],
    [cols |-> <<"comum", "Region">>, key |-> "Zip"] }

\* pd.read_excel: the first column holds the key cells, every other column
\* a number that tells the row and the file.
Sheet(cols, keys, file) ==
  [cols |-> cols,
   rows |-> [i \in DOMAIN keys |->
               [j \in DOMAIN cols |->
                  IF j = 1 THEN keys[i] ELSE Num((10 * file) + i)]]]

-----------------------------------------------------------------------------
(* The handler transfer() *)

VARIABLES
  arquivo1, arquivo2,            \* the sheets as loaded by read_excel
  coluna_comum_arquivo1,         \* form field: key column of the first file
  coluna_comum_arquivo2,         \* form field: key column of the second file
  df1, df2,                      \* the frames being transformed
  cidades_comum,                 \* the key values of the second frame
  df1_filtrado, df2_filtrado,    \* the filtered frames
  df_resultante,                 \* the merged frame
  output,                        \* the sheet written to the response
  response,                      \* how the request ended
  lineno,                        \* the line that raised or returned, 0 before
  pc                             \* the handler's position

vars == << arquivo1, arquivo2, coluna_comum_arquivo1, coluna_comum_arquivo2,
           df1, df2, cidades_comum, df1_filtrado, df2_filtrado,
           df_resultante, output, response, lineno, pc >>

inputs == << arquivo1, arquivo2, coluna_comum_arquivo1, coluna_comum_arquivo2 >>

Init ==
  \E s1 \in Shapes1, s2 \in Shapes2,
     k1 \in KeySeqs(KeyCells1), k2 \in KeySeqs(KeyCells2) :
    /\ arquivo1 = Sheet(s1.cols, k1, 1)
    /\ arquivo2 = Sheet(s2.cols, k2, 2)
    /\ coluna_comum_arquivo1 = s1.key
    /\ coluna_comum_arquivo2 = s2.key
    /\ df1 = arquivo1
    /\ df2 = arquivo2
    /\ cidades_comum = <<>>
    /\ df1_filtrado = NoTable
    /\ df2_filtrado = NoTable
    /\ df_resultante = NoTable
    /\ output = NoTable
    /\ response = "none"
    /\ lineno = 0
    /\ pc = "rename"

\* The request ends with an exception or a returned response.
Finish(r, line) ==
  /\ response' = r
  /\ lineno' = line
  /\ pc' = "done"

\* Lines 48-49.
RenameColumns ==
  /\ pc = "rename"
  /\ df1' = Rename(df1, coluna_comum_arquivo1)
  /\ df2' = Rename(df2, coluna_comum_arquivo2)
  /\ pc' = "normalize1"
  /\ UNCHANGED << inputs, cidades_comum, df1_filtrado, df2_filtrado,
                  df_resultante, output, response, lineno >>

\* Line 56.
Normalize1 ==
  /\ pc = "normalize1"
  /\ IF GetItemRaises(df1) THEN Finish("KeyError", 56) /\ UNCHANGED df1
     ELSE IF StrAccessorRaises(df1)
     THEN Finish("AttributeError", 56) /\ UNCHANGED df1
     ELSE /\ df1' = NormalizeComum(df1)
          /\ pc' = "normalize2"
          /\ UNCHANGED << response, lineno >>
  /\ UNCHANGED << inputs, df2, cidades_comum, df1_filtrado, df2_filtrado,
                  df_resultante, output >>

\* Line 57.
Normalize2 ==
  /\ pc = "normalize2"
  /\ IF GetItemRaises(df2) THEN Finish("KeyError", 57) /\ UNCHANGED df2
     ELSE IF StrAccessorRaises(df2)
     THEN Finish("AttributeError", 57) /\ UNCHANGED df2
     ELSE /\ df2' = NormalizeComum(df2)
          /\ pc' = "check"
          /\ UNCHANGED << response, lineno >>
  /\ UNCHANGED << inputs, df1, cidades_comum, df1_filtrado, df2_filtrado,
                  df_resultante, output >>

\* Lines 61-63.
CheckColumns ==
  /\ pc = "check"
  /\ IF ~HasCol(df1, "comum") \/ ~HasCol(df2, "comum")
     THEN Finish("ErroColuna", 63)
     ELSE pc' = "filter" /\ UNCHANGED << response, lineno >>
  /\ UNCHANGED << inputs, df1, df2, cidades_comum, df1_filtrado, df2_filtrado,
                  df_resultante, output >>

\* Lines 67-74.
Filter ==
  /\ pc = "filter"
  /\ cidades_comum' = Unique(DropNa(KeyColumn(df2)))
  /\ df1_filtrado' = BoolIndex(df1, cidades_comum')
  /\ df2_filtrado' = BoolIndex(df2, cidades_comum')
  /\ pc' = "empty"
  /\ UNCHANGED << inputs, df1, df2, df_resultante, output, response, lineno >>

\* Lines 83-85.
CheckEmpty ==
  /\ pc = "empty"
  /\ IF Empty(df1_filtrado)
     THEN Finish("ErroVazio", 85)
     ELSE pc' = "merge" /\ UNCHANGED << response, lineno >>
  /\ UNCHANGED << inputs, df1, df2, cidades_comum, df1_filtrado, df2_filtrado,
                  df_resultante, output >>

\* Line 89.
MergeFrames ==
  /\ pc = "merge"
  /\ IF MergeRaises(df1_filtrado, df2_filtrado)
     THEN Finish("MergeError", 89) /\ UNCHANGED df_resultante
     ELSE /\ df_resultante' = Merge(df1_filtrado, df2_filtrado)
          /\ pc' = "send"
          /\ UNCHANGED << response, lineno >>
  /\ UNCHANGED << inputs, df1, df2, cidades_comum, df1_filtrado, df2_filtrado,
                  output >>

\* Lines 92-105.
SendFile ==
  /\ pc = "send"
  /\ output' = df_resultante
  /\ Finish("xlsx", 105)
  /\ UNCHANGED << inputs, df1, df2, cidades_comum, df1_filtrado, df2_filtrado,
                  df_resultante >>

Next ==
  \/ RenameColumns
  \/ Normalize1
  \/ Normalize2
  \/ CheckColumns
  \/ Filter
  \/ CheckEmpty
  \/ MergeFrames
  \/ SendFile

Spec == Init /\ [][Next]_vars

-----------------------------------------------------------------------------
(* Vocabulary of the properties *)

Range(s) == {s[i] : i \in DOMAIN s}

Count(s, x) == Cardinality({i \in DOMAIN s : s[i] = x})

MaxOf(a, b) == IF a >= b THEN a ELSE b

RECURSIVE IsSubseq(_, _)
\* f can be obtained from a by deleting elements.
IsSubseq(f, a) ==
  IF f = <<>> THEN TRUE
  ELSE IF a = <<>> THEN FALSE
  ELSE IF Head(f) = Head(a) THEN IsSubseq(Tail(f), Tail(a))
  ELSE IsSubseq(f, Tail(a))

\* m is s without its leading and trailing spaces.
IsTrimOf(m, s) ==
  \E a \in 0..Len(s) : \E b \in a..Len(s) :
    /\ m = SubSeq(s, a + 1, b)
    /\ \A i \in (1..a) \cup ((b + 1)..Len(s)) : s[i] = " "
    /\ m # <<>> => (m[1] # " " /\ m[Len(m)] # " ")

\* u is m with every lower-case letter replaced by its upper-case letter.
IsUpperOf(u, m) ==
  /\ Len(u) = Len(m)
  /\ \A i \in DOMAIN m :
       \/ /\ \E p \in 39..64 : Alphabet[p] = m[i] /\ u[i] = Alphabet[p - 26]
       \/ /\ \A p \in 39..64 : Alphabet[p] # m[i]
          /\ u[i] = m[i]

\* The key cell of a normalised frame is upper(trim(str(cell))) of the cell
\* the loaded sheet holds at the same place.
IsNormalOf(cell, orig, float) ==
  /\ cell.t = "str"
  /\ \E m \in {SubSeq(PyStr(orig, float), a, b) :
                 a \in 1..(Len(PyStr(orig, float)) + 1),
                 b \in 0..Len(PyStr(orig, float))} :
       IsTrimOf(m, PyStr(orig, float)) /\ IsUpperOf(cell.s, m)

\* The handler is past line 56 and line 56 did not raise.
Normalized1 ==
  \/ pc \in {"normalize2", "check", "filter", "empty", "merge", "send"}
  \/ pc = "done" /\ lineno > 56

\* The handler is past line 57 and line 57 did not raise.
Normalized2 ==
  \/ pc \in {"check", "filter", "empty", "merge", "send"}
  \/ pc = "done" /\ lineno > 57

\* Lines 67-74 have run.
Filtered == df1_filtrado # NoTable

\* Line 89 is about to run, or has run.
JoinReached ==
  \/ pc \in {"merge", "send"}
  \/ response \in {"MergeError", "xlsx"}

\* Line 89 has produced the merged frame.
Joined == df_resultante # NoTable

\* What the claim asks of one normalised frame df made from the sheet orig.
RenamedAndNormalized(orig, key, df) ==
  /\ Len(df.cols) = Len(orig.cols)
  /\ Len(df.rows) = Len(orig.rows)
  /\ HasCol(df, "comum")
  /\ \A j \in DOMAIN orig.cols :
       IF orig.cols[j] = key
       THEN /\ df.cols[j] = "comum"
            /\ \A i \in DOMAIN orig.rows :
                 /\ Len(df.rows[i]) = Len(orig.rows[i])
                 /\ IsNormalOf(df.rows[i][j], orig.rows[i][j],
                               IsFloatColumn(Column(orig, j)))
       ELSE /\ df.cols[j] = orig.cols[j]
            /\ \A i \in DOMAIN orig.rows : df.rows[i][j] = orig.rows[i][j]

\* The requested key column is a column of the sheet and its rename leaves
\* exactly one column 'comum'.
KeyInOrder(orig, key) ==
  /\ HasCol(orig, key)
  /\ key = "comum" \/ ~HasCol(orig, "comum")

\* Both requested key columns are in order.
ValidRequest ==
  /\ KeyInOrder(arquivo1, coluna_comum_arquivo1)
  /\ KeyInOrder(arquivo2, coluna_comum_arquivo2)

-----------------------------------------------------------------------------
(* The claims *)

\* C1 (as stated): when a spreadsheet is returned for a request whose key
\* columns are present, the second frame was filtered to the keys present
\* in both files and no result row carries a key that is absent from either
\* input table.
C1_Original ==
  (ValidRequest /\ response = "xlsx") =>
    /\ KeySet(df2_filtrado) \subseteq KeySet(df1)
    /\ \A i \in DOMAIN output.rows :
         KeyOf(output, output.rows[i]) \in (KeySet(df1) \cap KeySet(df2))

\* C1 (amended): the filter set is the key set of the second file; the first
\* frame is filtered to it, the second frame keeps every row, and the
\* returned sheet has a row for every key of the second file and for no
\* other key.
C1_Amended ==
  response = "xlsx" =>
    /\ Range(cidades_comum) = KeySet(df2)
    /\ KeySet(df1_filtrado) = KeySet(df1) \cap KeySet(df2)
    /\ KeySet(df2_filtrado) = KeySet(df2)
    /\ {KeyOf(output, output.rows[i]) : i \in DOMAIN output.rows} = KeySet(df2)

\* C1 witness: a sheet is returned for two files whose key sets overlap only
\* in part.
C1_Witness ==
  /\ response = "xlsx"
  /\ KeySet(df1) \cap KeySet(df2) # {}
  /\ KeySet(df1) \ KeySet(df2) # {}
  /\ KeySet(df2) \ KeySet(df1) # {}

\* C2: the filtered first frame holds no row whose key is absent from the
\* second frame's keys, holds every row of the first frame whose key is
\* among them exactly as often as the first frame does, and keeps the
\* retained rows in their original relative order.
C2_StableFilter ==
  Filtered =>
    /\ df1_filtrado.cols = df1.cols
    /\ \A i \in DOMAIN df1_filtrado.rows :
         KeyOf(df1, df1_filtrado.rows[i]) \in KeySet(df2)
    /\ \A r \in Range(df1.rows) \cup Range(df1_filtrado.rows) :
         Count(df1_filtrado.rows, r) =
           IF KeyOf(df1, r) \in KeySet(df2) THEN Count(df1.rows, r) ELSE 0
    /\ IsSubseq(df1_filtrado.rows, df1.rows)

\* C2 witness: the filter has dropped the first row of the first frame and
\* kept a later one; or it has kept two different rows.
C2_Witness ==
  /\ Filtered
  /\ \/ /\ df1_filtrado.rows # <<>>
        /\ df1.rows[1] \notin Range(df1_filtrado.rows)
     \/ /\ Len(df1_filtrado.rows) >= 2
        /\ df1_filtrado.rows[1] # df1_filtrado.rows[2]

\* C3 (as stated): whenever the key column requested for the first file is
\* not one of its columns, or the first file is in order and the key column
\* requested for the second file is not one of its columns, the request
\* ends with the missing-column message and no sheet.
C3_MissingColumnMessage ==
  ( /\ pc = "done"
    /\ \/ ~HasCol(arquivo1, coluna_comum_arquivo1)
       \/ /\ KeyInOrder(arquivo1, coluna_comum_arquivo1)
          /\ ~HasCol(arquivo2, coluna_comum_arquivo2) )
  => (response = "ErroColuna" /\ output = NoTable)

\* C4: whenever the first frame is empty after the filter, the request ends
\* with the no-matching-data message, the merge is never executed and no
\* merged frame or sheet is produced.
C4_EmptyPrimaryStops ==
  /\ JoinReached => df1_filtrado.rows # <<>>
  /\ (Filtered /\ df1_filtrado.rows = <<>>) =>
       /\ pc \in {"empty", "done"}
       /\ pc = "done" => response = "ErroVazio"
       /\ df_resultante = NoTable
       /\ output = NoTable

\* C4 witness: two non-empty files with disjoint key sets ended with the
\* no-matching-data message.
C4_Witness ==
  /\ response = "ErroVazio"
  /\ df1.rows # <<>>
  /\ df2.rows # <<>>
  /\ KeySet(df1) \cap KeySet(df2) = {}

\* C5 (as stated): for every file and every key column present in it, after
\* normalisation the chosen column no longer exists under its original name,
\* 'comum' exists with upper(trim(str(cell))) in every row, and the other
\* columns and the rows are unchanged.
C5_Original ==
  /\ (Normalized1 /\ HasCol(arquivo1, coluna_comum_arquivo1)) =>
       /\ ~HasCol(df1, coluna_comum_arquivo1)
       /\ RenamedAndNormalized(arquivo1, coluna_comum_arquivo1, df1)
  /\ (Normalized2 /\ HasCol(arquivo2, coluna_comum_arquivo2)) =>
       /\ ~HasCol(df2, coluna_comum_arquivo2)
       /\ RenamedAndNormalized(arquivo2, coluna_comum_arquivo2, df2)

\* One file's share of the amended C5.
C5_File(orig, key, df, normalized) ==
  HasCol(orig, key) =>
    IF key # "comum" /\ HasCol(orig, "comum")
    THEN /\ ~normalized
         /\ output = NoTable
         /\ pc = "done" => response \in {"KeyError", "AttributeError"}
    ELSE normalized =>
           /\ key # "comum" => ~HasCol(df, key)
           /\ RenamedAndNormalized(orig, key, df)

\* C5 (amended): for a key column present in its file, (a) when the file has
\* no column named 'comum', the claim holds as stated; (b) when the key column
\* is itself named 'comum', it keeps that name and is normalised in place;
\* (c) when another column is already named 'comum', normalisation never
\* completes: the request ends with an unhandled failure and no sheet.
C5_Amended ==
  /\ C5_File(arquivo1, coluna_comum_arquivo1, df1, Normalized1)
  /\ C5_File(arquivo2, coluna_comum_arquivo2, df2, Normalized2)

\* C5 witness: both frames are normalised, and a key cell with surrounding
\* space and lower-case letters has become its trimmed upper-case text.
C5_Witness ==
  /\ pc = "check"
  /\ HasCol(arquivo1, coluna_comum_arquivo1)
  /\ HasCol(arquivo2, coluna_comum_arquivo2)
  /\ \E i \in DOMAIN arquivo1.rows :
       /\ arquivo1.rows[i][1] = Str(<<" ", "a">>)
       /\ df1.rows[i][1] = Str(<<"A">>)
  /\ \E i \in DOMAIN arquivo2.rows :
       /\ arquivo2.rows[i][1] = Str(<<"A", " ">>)
       /\ df2.rows[i][1] = Str(<<"A">>)

\* C6: the merged frame has at least max(distinct keys of the left frame,
\* distinct keys of the right frame) rows, exactly that many when no key
\* repeats inside either frame, and every key of either frame occurs in it.
C6_JoinCardinality ==
  Joined =>
    LET nl == Cardinality(KeySet(df1_filtrado))
        nr == Cardinality(KeySet(df2_filtrado))
        n == Len(df_resultante.rows)
    IN /\ n >= MaxOf(nl, nr)
       /\ (nl = Len(df1_filtrado.rows) /\ nr = Len(df2_filtrado.rows))
            => n = MaxOf(nl, nr)
       /\ \A k \in KeySet(df1_filtrado) \cup KeySet(df2_filtrado) :
            \E i \in DOMAIN df_resultante.rows :
              KeyOf(df_resultante, df_resultante.rows[i]) = k

\* C6 witness: a merge of frames with a repeated key gave more rows than
\* either frame has distinct keys.
C6_Witness ==
  /\ Joined
  /\ Len(df_resultante.rows) >
       MaxOf(Cardinality(KeySet(df1_filtrado)),
             Cardinality(KeySet(df2_filtrado)))

\* The label a column of one side carries in the merged frame.
C7_Label(c, suffix) ==
  IF c \in Overlap(df1_filtrado, df2_filtrado) THEN c \o suffix ELSE c

\* The cells of result row r under the labels of side df are those of the
\* row src of df when matched, and all NaN otherwise.
C7_SideIs(r, df, suffix, matched, src) ==
  \A j \in DOMAIN df.cols :
    df.cols[j] # "comum" =>
      \E p \in ColIdx(df_resultante, C7_Label(df.cols[j], suffix)) :
        r[p] = IF matched THEN src[j] ELSE Null

\* One side's share of C7 for result row r.
C7_Side(r, df, suffix) ==
  IF KeyOf(df_resultante, r) \in KeySet(df)
  THEN \E i \in DOMAIN df.rows :
         /\ KeyOf(df, df.rows[i]) = KeyOf(df_resultante, r)
         /\ C7_SideIs(r, df, suffix, TRUE, df.rows[i])
  ELSE C7_SideIs(r, df, suffix, FALSE, <<>>)

\* C7: the merged frame has the column 'comum' exactly once plus the non-key
\* columns of both frames; a non-key label both frames carry appears as two
\* distinct suffixed columns, one per frame; a row without counterpart in
\* the other frame has NaN in all the other frame's columns.
C7_ResultColumns ==
  Joined =>
    /\ Cardinality(ColIdx(df_resultante, "comum")) = 1
    /\ Len(df_resultante.cols) =
         Len(df1_filtrado.cols) + Len(df2_filtrado.cols) - 1
    /\ ~HasDuplicates(df_resultante.cols)
    /\ \A c \in Overlap(df1_filtrado, df2_filtrado) :
         /\ ~HasCol(df_resultante, c)
         /\ HasCol(df_resultante, c \o "_x")
         /\ HasCol(df_resultante, c \o "_y")
    /\ \A c \in (Labels(df1_filtrado) \cup Labels(df2_filtrado))
                  \ Overlap(df1_filtrado, df2_filtrado) :
         HasCol(df_resultante, c)
    /\ \A i \in DOMAIN df_resultante.rows :
         /\ Len(df_resultante.rows[i]) = Len(df_resultante.cols)
         /\ C7_Side(df_resultante.rows[i], df1_filtrado, "_x")
         /\ C7_Side(df_resultante.rows[i], df2_filtrado, "_y")

\* C7 witness: a merge of frames that both have a column 'Pop' produced a
\* row for a key the first frame lacks.
C7_Witness ==
  /\ Joined
  /\ "Pop" \in Overlap(df1_filtrado, df2_filtrado)
  /\ \E i \in DOMAIN df_resultante.rows :
       KeyOf(df_resultante, df_resultante.rows[i]) \notin KeySet(df1_filtrado)

\* C8 (as stated): with both key columns present, a row of the first file
\* whose key cell is empty is never retained by the filter, also when the
\* second file has rows with an empty key cell.
C8_NullKeysDropped ==
  (ValidRequest /\ Filtered) =>
    \A i \in DOMAIN arquivo1.rows :
      KeyOf(df1, arquivo1.rows[i]) = Null
        => df1.rows[i] \notin Range(df1_filtrado.rows)

\* C9: on every run that reaches the merge, the filtered second frame is the
\* normalised second frame, both merge inputs have rows, every result row
\* carries a key of the second frame together with the cells of one of its
\* rows, and every row of the second frame is part of some result row.
C9_SecondaryUnfiltered ==
  /\ JoinReached =>
       /\ df2_filtrado = df2
       /\ df1_filtrado.rows # <<>>
       /\ df2_filtrado.rows # <<>>
  /\ Joined =>
       LET rk == CHOOSE j \in ColIdx(df2, "comum") : TRUE
           nleft == Len(df1_filtrado.cols)
           right(r) == SubSeq(r, nleft + 1, Len(r))
       IN /\ \A i \in DOMAIN df_resultante.rows :
               \E q \in DOMAIN df2.rows :
                 /\ KeyOf(df_resultante, df_resultante.rows[i])
                      = KeyOf(df2, df2.rows[q])
                 /\ right(df_resultante.rows[i]) = SeqWithout(df2.rows[q], rk)
          /\ \A q \in DOMAIN df2.rows :
               \E i \in DOMAIN df_resultante.rows :
                 /\ KeyOf(df_resultante, df_resultante.rows[i])
                      = KeyOf(df2, df2.rows[q])
                 /\ right(df_resultante.rows[i]) = SeqWithout(df2.rows[q], rk)

\* C9 witness: the merge ran on a second file that has an empty key cell and
\* a key the first file lacks.
C9_Witness ==
  /\ Joined
  /\ \E i \in DOMAIN arquivo2.rows : KeyOf(df2, arquivo2.rows[i]) = Null
  /\ KeySet(df2) \ KeySet(df1) # {}

\* C10: the missing-column message is never the response: whenever the
\* column check of line 61 runs, both frames have a column 'comum'.
C10_CheckNeverFails ==
  /\ response # "ErroColuna"
  /\ pc = "check" => (HasCol(df1, "comum") /\ HasCol(df2, "comum"))

\* C10 witness: the column check has passed although a requested key column
\* is not a column of its file.
C10_Witness ==
  /\ pc = "filter"
  /\ \/ ~HasCol(arquivo1, coluna_comum_arquivo1)
     \/ ~HasCol(arquivo2, coluna_comum_arquivo2)

====
